---- MODULE Spec2Model ----
(***************************************************************************)
(* Model of grade_calculator.py: one run of main() (or one direct call of  *)
(* process_grades) over the contents of exam_data.json, and the pure       *)
(* functions validate_student_data, calculate_grade and                    *)
(* generate_summary_stats.                                                  *)
(*                                                                         *)
(* A percentage is a Python float, modelled bit for bit (see below).        *)
(* A Python exception is the "raised" field of a call's result.            *)
(***************************************************************************)
EXTENDS Integers, Sequences, FiniteSets

\* ------------------------------------------------------------------ bounds
MaxStudents  == 4   \* longest roster of the input file
MaxQuestions == 2   \* largest exam_info.total_questions
MaxKeyLen    == 3   \* longest answer_key
MaxAnswers   == 2   \* longest answers list drawn for validate_student_data
MaxGradeLen  == 10  \* longest answers and answer_key drawn for calculate_grade
MaxGrades    == 3   \* longest grades_data drawn for generate_summary_stats
StatQuestions == 9  \* most questions behind the grades drawn for generate_summary_stats

\* ------------------------------------------------------- program constants
LimitStudents == 3  \* main: process_grades(limit_students=3)

\* required_fields, in the order validate_student_data checks them
required_fields == <<"student_id", "student_name", "answers">>

\* valid_answers
valid_answers == {"A", "B", "C", "D"}

\* the grades generate_summary_stats counts, in its order
GradeLetters == <<"A", "B", "C", "D", "F">>

\* A JSON value that Python cannot hash (a list or an object inside answers).
Unhashable == "<unhashable>"

\* ------------------------------------------------------------- small helpers
Min(a, b) == IF a <= b THEN a ELSE b

Range(s) == {s[i] : i \in 1..Len(s)}

SeqsUpTo(S, n) == UNION {[1..k -> S] : k \in 0..n}

\* a slice that keeps one element too many
TakeOneMore(s, n) == SubSeq(s, 1, Min(n + 1, Len(s)))

\* Python's s[:n] for n >= 0
Take(s, n) == SubSeq(s, 1, Min(n, Len(s)))

\* ------------------------------------------------------- Python's floats
(***************************************************************************)
(* A float is an IEEE-754 double, held exactly as the natural number of    *)
(* units of 2^-60 it is worth: five limbs of 15 bits, least significant    *)
(* first, so that limb 5 is its integer part.  Each operation computes the *)
(* exact result and rounds it to 53 significant bits, half to even, as the *)
(* hardware does.  The representation is exact for the values of this      *)
(* program while an exam has at most 64 questions: every nonzero value is  *)
(* then at least 2^-6 and below 2^15.                                      *)
(***************************************************************************)
LimbBase == 2^15

LimbBits == 15

Mantissa == 53

FZero == <<0, 0, 0, 0, 0>>

\* float(k) for an integer 0 <= k < 2^15
FromInt(k) == <<0, 0, 0, 0, k>>

\* carries propagated, each limb back below LimbBase
Norm(t) ==
    LET c1 == t[1] \div LimbBase
        u2 == t[2] + c1
        c2 == u2 \div LimbBase
        u3 == t[3] + c2
        c3 == u3 \div LimbBase
        u4 == t[4] + c3
        c4 == u4 \div LimbBase
    IN  <<t[1] % LimbBase, u2 % LimbBase, u3 % LimbBase, u4 % LimbBase, t[5] + c4>>

\* the exact sum
AddExact(a, b) == Norm([i \in 1..5 |-> a[i] + b[i]])

\* the exact product with an integer 0 <= k < 2^15
MulExact(a, k) == Norm([i \in 1..5 |-> a[i] * k])

\* the exact quotient by an integer k > 0: floor and remainder
DivExact(a, k) ==
    LET n5 == a[5]
        n4 == (n5 % k) * LimbBase + a[4]
        n3 == (n4 % k) * LimbBase + a[3]
        n2 == (n3 % k) * LimbBase + a[2]
        n1 == (n2 % k) * LimbBase + a[1]
    IN  [q |-> <<n1 \div k, n2 \div k, n3 \div k, n4 \div k, n5 \div k>>, r |-> n1 % k]

\* bit j (from 0) of a
Bit(a, j) == (a[(j \div LimbBits) + 1] \div 2^(j % LimbBits)) % 2

\* number of significant bits of a
BitLen(a) ==
    IF a = FZero THEN 0
    ELSE LET top == CHOOSE i \in 1..5 : a[i] # 0 /\ \A j \in (i + 1)..5 : a[j] = 0
             len == CHOOSE b \in 1..(LimbBits + 1) : 2^(b - 1) <= a[top] /\ a[top] < 2^b
         IN  LimbBits * (top - 1) + len

Limbs(f) == <<f[1], f[2], f[3], f[4], f[5]>>

\* a with its s lowest bits cleared
ClearLow(a, s) ==
    Limbs([i \in 1..5 |->
        IF LimbBits * i <= s THEN 0
        ELSE IF LimbBits * (i - 1) >= s THEN a[i]
        ELSE a[i] - (a[i] % 2^(s - LimbBits * (i - 1)))])

\* 2^s
PowerOfTwo(s) ==
    Limbs([i \in 1..5 |-> IF i = (s \div LimbBits) + 1 THEN 2^(s % LimbBits) ELSE 0])

\* round to nearest, ties to even: a is the floor of the exact result and
\* sticky says whether the exact result lies strictly above a
RoundNearestEven(a, sticky) ==
    LET s == BitLen(a) - Mantissa IN
    IF s <= 0 THEN a
    ELSE LET half == Bit(a, s - 1) = 1
             rest == sticky \/ \E j \in 0..(s - 2) : Bit(a, j) = 1
             odd  == Bit(a, s) = 1
         IN  IF half /\ (rest \/ odd)
             THEN AddExact(ClearLow(a, s), PowerOfTwo(s))
             ELSE ClearLow(a, s)

\* x + y
FAdd(x, y) == RoundNearestEven(AddExact(x, y), FALSE)

\* x * k for an integer k
FMul(x, k) == RoundNearestEven(MulExact(x, k), FALSE)

\* x / k for an integer k > 0
FDiv(x, k) == LET d == DivExact(x, k) IN RoundNearestEven(d.q, d.r # 0)

\* x <= y
FLe(x, y) ==
    \/ x = y
    \/ \E i \in 1..5 : x[i] < y[i] /\ \A j \in (i + 1)..5 : x[j] = y[j]

\* x >= k for an integer k
FGe(x, k) == x[5] >= k

\* --------------------------------------------------- validate_student_data
NoError == [text |-> "", field |-> "", expected |-> 0, got |-> 0,
            answer |-> "", question |-> 0]

MissingField(f) == [NoError EXCEPT !.text = "Missing required field", !.field = f]

WrongCount(tq, n) ==
    [NoError EXCEPT !.text = "Expected answers, got", !.expected = tq, !.got = n]

InvalidAnswer(a, q) ==
    [NoError EXCEPT !.text = "Invalid answer at question", !.answer = a, !.question = q]

Returned(ok, msg) == [raised |-> "", is_valid |-> ok, error_msg |-> msg]

Raised(exc) == [raised |-> exc, is_valid |-> FALSE, error_msg |-> NoError]

\* first required field the record lacks (0: none)
FirstMissing(student) ==
    IF \E i \in 1..Len(required_fields) : required_fields[i] \notin student.fields
    THEN CHOOSE i \in 1..Len(required_fields) :
            /\ required_fields[i] \notin student.fields
            /\ \A j \in 1..(i - 1) : required_fields[j] \in student.fields
    ELSE 0

\* first answer on which "answer not in valid_answers" is true or raises (0: none)
FirstBadAnswer(items) ==
    IF \E i \in 1..Len(items) : items[i] \notin valid_answers
    THEN CHOOSE i \in 1..Len(items) :
            /\ items[i] \notin valid_answers
            /\ \A j \in 1..(i - 1) : items[j] \in valid_answers
    ELSE 0

\* validate_student_data without its answer-format loop
validate_without_format_check(student, total_q) ==
    LET m == FirstMissing(student) IN
    IF m # 0 THEN Returned(FALSE, MissingField(required_fields[m]))
    ELSE IF ~student.answers.sized THEN Raised("TypeError")
    ELSE IF Len(student.answers.items) # total_q
         THEN Returned(FALSE, WrongCount(total_q, Len(student.answers.items)))
         ELSE Returned(TRUE, NoError)

validate_student_data(student, total_q) ==
    LET m == FirstMissing(student) IN
    IF m # 0 THEN Returned(FALSE, MissingField(required_fields[m]))
    ELSE IF ~student.answers.sized THEN Raised("TypeError")
    ELSE LET items == student.answers.items
             b == FirstBadAnswer(items) IN
         IF Len(items) # total_q THEN Returned(FALSE, WrongCount(total_q, Len(items)))
         ELSE IF b = 0 THEN Returned(TRUE, NoError)
         ELSE IF items[b] = Unhashable THEN Raised("TypeError")
         ELSE Returned(FALSE, InvalidAnswer(items[b], b))

\* ---------------------------------------------------------- calculate_grade
\* zip(student_answers, answer_key) stops at the shorter of the two
correct_count_of(student_answers, answer_key) ==
    Cardinality({i \in 1..Min(Len(student_answers), Len(answer_key)) :
                    student_answers[i] = answer_key[i]})

\* the chain with ">" where the code has ">="
LetterGradeStrict(p) ==
    IF ~FLe(p, FromInt(90)) THEN "A"
    ELSE IF ~FLe(p, FromInt(80)) THEN "B"
    ELSE IF ~FLe(p, FromInt(70)) THEN "C"
    ELSE IF ~FLe(p, FromInt(60)) THEN "D"
    ELSE "F"

\* the if/elif chain on percentage
LetterGrade(p) ==
    IF FGe(p, 90) THEN "A"
    ELSE IF FGe(p, 80) THEN "B"
    ELSE IF FGe(p, 70) THEN "C"
    ELSE IF FGe(p, 60) THEN "D"
    ELSE "F"

\* percentage = (correct_count / len(answer_key)) * 100
Percentage(correct, answer_key) == FMul(FDiv(FromInt(correct), Len(answer_key)), 100)

calculate_grade(student_answers, answer_key) ==
    LET c == correct_count_of(student_answers, answer_key) IN
    IF Len(answer_key) = 0
    THEN [raised |-> "ZeroDivisionError", correct_count |-> c,
          percentage |-> FZero, letter_grade |-> ""]
    ELSE [raised |-> "", correct_count |-> c,
          percentage |-> Percentage(c, answer_key),
          letter_grade |-> LetterGrade(Percentage(c, answer_key))]

\* --------------------------------------------------- generate_summary_stats
\* sum(percentages): the floats added one by one, left to right, from 0,
\* each addition rounded (CPython up to 3.11; later versions compensate the
\* additions and round the total once)
RECURSIVE SumFrom(_, _)
SumFrom(acc, ps) == IF Len(ps) = 0 THEN acc ELSE SumFrom(FAdd(acc, ps[1]), Tail(ps))

\* max(percentages)
MaxPct(ps) == ps[CHOOSE i \in 1..Len(ps) : \A j \in 1..Len(ps) : FLe(ps[j], ps[i])]

\* min(percentages)
MinPct(ps) == ps[CHOOSE i \in 1..Len(ps) : \A j \in 1..Len(ps) : FLe(ps[i], ps[j])]

\* letter_grades.count(grade)
CountGrade(letter_grades, g) ==
    Cardinality({i \in 1..Len(letter_grades) : letter_grades[i] = g})

\* sum(percentages) / len(percentages)
Mean(ps) == FDiv(SumFrom(FZero, ps), Len(ps))

GradeDistribution(letter_grades) ==
    [g \in Range(GradeLetters) |-> CountGrade(letter_grades, g)]

generate_summary_stats(gd) ==
    LET percentages == [i \in 1..Len(gd) |-> gd[i].percentage]
        letter_grades == [i \in 1..Len(gd) |-> gd[i].letter_grade] IN
    IF Len(gd) = 0
    THEN [raised |-> "ZeroDivisionError", class_average |-> FZero,
          highest_score |-> FZero, lowest_score |-> FZero,
          grade_distribution |-> GradeDistribution(letter_grades)]
    ELSE [raised |-> "", class_average |-> Mean(percentages),
          highest_score |-> MaxPct(percentages),
          lowest_score |-> MinPct(percentages),
          grade_distribution |-> GradeDistribution(letter_grades)]

\* ------------------------------------------------------------ report lines
\* "{percentage:.1f}": the float's exact value in tenths, rounded half to even
Format1f(p) ==
    LET x == MulExact(p, 10)
        frac == <<x[1], x[2], x[3], x[4], 0>>
        half == PowerOfTwo(4 * LimbBits - 1)
    IN  IF (FLe(half, frac) /\ frac # half) \/ (frac = half /\ x[5] % 2 = 1)
        THEN x[5] + 1
        ELSE x[5]

BlankLine == [kind |-> "", name |-> "", sid |-> "", msg |-> NoError,
              num |-> 0, den |-> 0, tenths |-> 0, grade |-> ""]

Fixed(kind) == [BlankLine EXCEPT !.kind = kind]

\* student.get('student_name', 'Unknown')
NameOrUnknown(student) ==
    IF "student_name" \in student.fields THEN student.student_name ELSE "Unknown"

HeaderLines(total_q) ==
    << Fixed("rule60"), Fixed("EXAM RESULTS"), Fixed("Date"),
       [Fixed("Total Questions") EXCEPT !.num = total_q],
       Fixed("rule60"), BlankLine >>

WarningLine(student, msg) ==
    [Fixed("ERROR processing") EXCEPT !.name = NameOrUnknown(student), !.msg = msg]

ResultLines(student, total_q, g) ==
    << [Fixed("Student") EXCEPT !.name = student.student_name, !.sid = student.student_id],
       [Fixed("Score") EXCEPT !.num = g.correct_count, !.den = total_q,
                              !.tenths = Format1f(g.percentage)],
       [Fixed("Grade") EXCEPT !.grade = g.letter_grade],
       Fixed("rule40") >>

\* the lines "  {grade}: {count} student(s)" for the grades with count > 0
RECURSIVE DistributionLines(_, _)
DistributionLines(dist, i) ==
    IF i > Len(GradeLetters) THEN <<>>
    ELSE (IF dist[GradeLetters[i]] > 0
          THEN << [Fixed("distribution") EXCEPT !.grade = GradeLetters[i],
                                                !.num = dist[GradeLetters[i]]] >>
          ELSE <<>>)
         \o DistributionLines(dist, i + 1)

SummaryLines(processed, stats) ==
    << Fixed("CLASS SUMMARY STATISTICS"), Fixed("rule30"),
       [Fixed("Students Processed") EXCEPT !.num = processed],
       [Fixed("Class Average") EXCEPT !.tenths = Format1f(stats.class_average)],
       [Fixed("Highest Score") EXCEPT !.tenths = Format1f(stats.highest_score)],
       [Fixed("Lowest Score") EXCEPT !.tenths = Format1f(stats.lowest_score)],
       BlankLine, Fixed("Grade Distribution") >>
    \o DistributionLines(stats.grade_distribution, 1)

NoticeLine == Fixed("No valid student data was processed.")

\* ------------------------------------------------------------------- inputs
AllFields == Range(required_fields)

\* a JSON array (or string) of answers
List(items) == [sized |-> TRUE, items |-> items]

\* a JSON null or number where the answers should be: len() raises TypeError
NotAList == [sized |-> FALSE, items |-> <<>>]

Student(fields, sid, name, answers) ==
    [fields |-> fields, student_id |-> sid, student_name |-> name, answers |-> answers]

\* the student records the rosters of a run are drawn from
StudentPool ==
    { Student(AllFields, "s1", "Ann", List(<<"A", "B">>)),
      Student(AllFields, "s2", "Bob", List(<<"B">>)),
      Student(AllFields, "s3", "Cyd", List(<<"A", "A">>)),
      Student(AllFields \ {"student_name"}, "s4", "", List(<<"A", "e">>)),
      Student(AllFields, "s5", "Eve", NotAList) }

\* the answer keys of a run: A, B, A, B, ... of each length
KeyOf(n) == [i \in 1..n |-> IF i % 2 = 1 THEN "A" ELSE "B"]

NoData == [status |-> "ok", total_questions |-> 0, answer_key |-> <<>>, students |-> <<>>]

\* what open() and json.load() find in exam_data.json; a file that parses
\* holds exam_info, answer_key and students, and total_questions >= 1
Files ==
    { [NoData EXCEPT !.status = "missing"], [NoData EXCEPT !.status = "malformed"] }
    \cup [status : {"ok"}, total_questions : 1..MaxQuestions,
          answer_key : {KeyOf(n) : n \in 0..MaxKeyLen},
          students : SeqsUpTo(StudentPool, MaxStudents)]

\* limit_students: None, or an integer
NoLimit == [given |-> FALSE, value |-> 0]

Limit(n) == [given |-> TRUE, value |-> n]

\* "if limit_students:" is false for None and for 0
Truthy(limit) == limit.given /\ limit.value # 0

\* -------------------------------------------------------------------- state
VARIABLES
    caller,           \* "main", or "process_grades" called directly
    limit_students,   \* the argument of process_grades
    file,             \* exam_data.json as the run finds it
    pc,               \* "start", "loop", "returned", "raised", "exited"
    total_questions, answer_key, students,   \* process_grades' locals after loading
    idx,              \* position of the for loop in students
    output_lines, grades_data, processed_count,
    stats_calls,      \* calls of generate_summary_stats so far
    validated,        \* roster positions validate_student_data was called on
    result,           \* what process_grades returned
    error,            \* the exception that ended the run ("": none)
    exit_code,        \* the process's exit code (-1: still running)
    unexpected,       \* main's except block ran ("An unexpected error occurred")
    output_txt,       \* output.txt: whether it was opened, and its text
    call              \* one call of a pure function, in the function specifications

vars == <<caller, limit_students, file, pc, total_questions, answer_key, students, idx,
          output_lines, grades_data, processed_count, stats_calls, validated, result,
          error, exit_code, unexpected, output_txt, call>>

NoCall == [fn |-> "none"]

Unopened == [opened |-> FALSE, text |-> <<>>]

Idle ==
    /\ total_questions = 0
    /\ answer_key = <<>>
    /\ students = <<>>
    /\ idx = 0
    /\ output_lines = <<>>
    /\ grades_data = <<>>
    /\ processed_count = 0
    /\ stats_calls = 0
    /\ validated = {}
    /\ result = <<>>
    /\ error = ""
    /\ exit_code = -1
    /\ unexpected = FALSE
    /\ output_txt = Unopened

Init ==
    /\ caller \in {"main", "process_grades"}
    /\ limit_students = IF caller = "main" THEN Limit(LimitStudents) ELSE NoLimit
    /\ file \in Files
    /\ pc = "start"
    /\ Idle
    /\ call = NoCall

\* ------------------------------------------------------------------ actions
\* a bare "except:" would catch SystemExit too
CaughtByBareExcept(exc) == TRUE

\* "except Exception" catches TypeError and ZeroDivisionError; SystemExit
\* derives from BaseException only
CaughtByMain(exc) == exc \in {"TypeError", "ZeroDivisionError"}

\* an exception leaves process_grades.  In main, "except Exception" prints a
\* caught one and calls sys.exit(1), and SystemExit ends the process with its
\* own code 1; a direct caller sees the exception raised
Propagate(exc) ==
    /\ error' = exc
    /\ pc' = IF caller = "main" \/ exc = "SystemExit" THEN "exited" ELSE "raised"
    /\ exit_code' = IF caller = "main" \/ exc = "SystemExit" THEN 1 ELSE exit_code
    /\ unexpected' = (caller = "main" /\ CaughtByMain(exc))

\* load_exam_data: the file is missing or is not JSON: print, sys.exit(1)
LoadFails ==
    /\ pc = "start"
    /\ file.status # "ok"
    /\ Propagate("SystemExit")
    /\ UNCHANGED <<caller, limit_students, file, total_questions, answer_key, students,
                   idx, output_lines, grades_data, processed_count, stats_calls,
                   validated, result, output_txt, call>>

\* process_grades up to the student loop: load, slice, header
LoadOk ==
    /\ pc = "start"
    /\ file.status = "ok"
    /\ total_questions' = file.total_questions
    /\ answer_key' = file.answer_key
    /\ students' = IF Truthy(limit_students)
                   THEN Take(file.students, limit_students.value)
                   ELSE file.students
    /\ output_lines' = HeaderLines(file.total_questions)
    /\ grades_data' = <<>>
    /\ processed_count' = 0
    /\ idx' = 1
    /\ pc' = "loop"
    /\ UNCHANGED <<caller, limit_students, file, stats_calls, validated, result, error,
                   exit_code, unexpected, output_txt, call>>

InLoop == pc = "loop" /\ idx <= Len(students)

\* validate_student_data raises on students[idx]
ValidationRaises ==
    /\ InLoop
    /\ validate_student_data(students[idx], total_questions).raised # ""
    /\ validated' = validated \cup {idx}
    /\ Propagate(validate_student_data(students[idx], total_questions).raised)
    /\ UNCHANGED <<caller, limit_students, file, total_questions, answer_key, students,
                   idx, output_lines, grades_data, processed_count, stats_calls, result,
                   output_txt, call>>

\* an invalid record kept as a zero score
SkipInvalidAsZero ==
    /\ InLoop
    /\ LET v == validate_student_data(students[idx], total_questions) IN
        /\ v.raised = ""
        /\ ~v.is_valid
        /\ output_lines' = Append(output_lines, WarningLine(students[idx], v.error_msg))
    /\ grades_data' = Append(grades_data,
            [student_name |-> NameOrUnknown(students[idx]), percentage |-> FZero,
             letter_grade |-> "F", correct_count |-> 0])
    /\ validated' = validated \cup {idx}
    /\ idx' = idx + 1
    /\ UNCHANGED <<caller, limit_students, file, pc, total_questions, answer_key, students,
                   processed_count, stats_calls, result, error, exit_code,
                   unexpected, output_txt, call>>

\* an invalid record dropped without its warning line
SkipInvalidSilently ==
    /\ InLoop
    /\ LET v == validate_student_data(students[idx], total_questions) IN
        v.raised = "" /\ ~v.is_valid
    /\ validated' = validated \cup {idx}
    /\ idx' = idx + 1
    /\ UNCHANGED <<caller, limit_students, file, pc, total_questions, answer_key, students,
                   output_lines, grades_data, processed_count, stats_calls, result, error,
                   exit_code, unexpected, output_txt, call>>

\* "if not is_valid": one warning line, continue
SkipInvalid ==
    /\ InLoop
    /\ LET v == validate_student_data(students[idx], total_questions) IN
        /\ v.raised = ""
        /\ ~v.is_valid
        /\ output_lines' = Append(output_lines, WarningLine(students[idx], v.error_msg))
    /\ validated' = validated \cup {idx}
    /\ idx' = idx + 1
    /\ UNCHANGED <<caller, limit_students, file, pc, total_questions, answer_key, students,
                   grades_data, processed_count, stats_calls, result, error, exit_code,
                   unexpected, output_txt, call>>

IsValid(student, total_q) ==
    LET v == validate_student_data(student, total_q) IN v.raised = "" /\ v.is_valid

\* calculate_grade raises on a valid student (an empty answer_key)
GradeRaises ==
    /\ InLoop
    /\ IsValid(students[idx], total_questions)
    /\ calculate_grade(students[idx].answers.items, answer_key).raised # ""
    /\ validated' = validated \cup {idx}
    /\ Propagate(calculate_grade(students[idx].answers.items, answer_key).raised)
    /\ UNCHANGED <<caller, limit_students, file, total_questions, answer_key, students,
                   idx, output_lines, grades_data, processed_count, stats_calls, result,
                   output_txt, call>>

GradeData(student, g) ==
    [student_name |-> student.student_name, percentage |-> g.percentage,
     letter_grade |-> g.letter_grade, correct_count |-> g.correct_count]

\* a valid student: grade, store, four report lines, count
ScoreStudent ==
    /\ InLoop
    /\ IsValid(students[idx], total_questions)
    /\ LET g == calculate_grade(students[idx].answers.items, answer_key) IN
        /\ g.raised = ""
        /\ grades_data' = Append(grades_data, GradeData(students[idx], g))
        /\ output_lines' = output_lines \o ResultLines(students[idx], total_questions, g)
    /\ processed_count' = processed_count + 1
    /\ validated' = validated \cup {idx}
    /\ idx' = idx + 1
    /\ UNCHANGED <<caller, limit_students, file, pc, total_questions, answer_key, students,
                   stats_calls, result, error, exit_code, unexpected, output_txt, call>>

LoopDone == pc = "loop" /\ idx > Len(students)

\* "if grades_data:": the summary block, and the report is returned
SummaryBlock ==
    /\ LoopDone
    /\ grades_data # <<>>
    /\ stats_calls' = stats_calls + 1
    /\ output_lines' = output_lines
           \o SummaryLines(processed_count, generate_summary_stats(grades_data))
    /\ result' = output_lines'
    /\ pc' = "returned"
    /\ UNCHANGED <<caller, limit_students, file, total_questions, answer_key, students,
                   idx, grades_data, processed_count, validated, error, exit_code,
                   unexpected, output_txt, call>>

\* the summary computed without the "if grades_data:" guard
SummaryOfNothing ==
    /\ pc = "loop" /\ idx > Len(students)
    /\ grades_data = <<>>
    /\ stats_calls' = stats_calls + 1
    /\ Propagate(generate_summary_stats(grades_data).raised)
    /\ UNCHANGED <<caller, limit_students, file, total_questions, answer_key, students,
                   idx, output_lines, grades_data, processed_count, validated, result,
                   output_txt, call>>

\* "else": the notice, and the report is returned
NoValidNotice ==
    /\ LoopDone
    /\ grades_data = <<>>
    /\ output_lines' = Append(output_lines, NoticeLine)
    /\ result' = output_lines'
    /\ pc' = "returned"
    /\ UNCHANGED <<caller, limit_students, file, total_questions, answer_key, students,
                   idx, grades_data, processed_count, stats_calls, validated, error,
                   exit_code, unexpected, output_txt, call>>

\* main after process_grades returned: write output.txt, print, end
\* (open('output.txt', 'w') is taken to succeed)
WriteOutput ==
    /\ pc = "returned"
    /\ caller = "main"
    /\ output_txt' = [opened |-> TRUE, text |-> result]
    /\ exit_code' = 0
    /\ pc' = "exited"
    /\ UNCHANGED <<caller, limit_students, file, total_questions, answer_key, students,
                   idx, output_lines, grades_data, processed_count, stats_calls,
                   validated, result, error, unexpected, call>>

Next ==
    \/ LoadFails
    \/ LoadOk
    \/ ValidationRaises
    \/ SkipInvalid
    \/ GradeRaises
    \/ ScoreStudent
    \/ SummaryBlock
    \/ NoValidNotice
    \/ WriteOutput

Spec == Init /\ [][Next]_vars

\* ------------------------------------------- the pure functions on their own
\* the run's variables while a single function is called
NoRun ==
    /\ caller = "none"
    /\ limit_students = NoLimit
    /\ file = NoData
    /\ pc = "call"
    /\ Idle

RunUnchanged ==
    UNCHANGED <<caller, limit_students, file, pc, total_questions, answer_key, students,
                idx, output_lines, grades_data, processed_count, stats_calls, validated,
                result, error, exit_code, unexpected, output_txt>>

\* what an element of answers can be: a valid letter, another string, an
\* unhashable value
AnswerValues == valid_answers \cup {"a", "E", Unhashable}

AllStudents ==
    { Student(f, "s1", "Ann", a) :
        f \in SUBSET AllFields,
        a \in {NotAList} \cup {List(x) : x \in SeqsUpTo(AnswerValues, MaxAnswers)} }

InitValidate ==
    /\ NoRun
    /\ call \in [fn : {"validate_student_data"}, student : AllStudents,
                 total_q : 0..MaxQuestions, done : {FALSE}, out : {Raised("")}]

CallValidate ==
    /\ call.fn = "validate_student_data"
    /\ ~call.done
    /\ call' = [call EXCEPT !.done = TRUE,
                            !.out = validate_student_data(call.student, call.total_q)]
    /\ RunUnchanged

NextValidate == CallValidate

SpecValidate == InitValidate /\ [][NextValidate]_vars

NoGrade == [raised |-> "", correct_count |-> 0, percentage |-> FZero,
            letter_grade |-> ""]

InitGrade ==
    /\ NoRun
    /\ call \in [fn : {"calculate_grade"},
                 student_answers : SeqsUpTo({"A", "B"}, MaxGradeLen),
                 answer_key : {KeyOf(n) : n \in 0..MaxGradeLen},
                 done : {FALSE}, out : {NoGrade}]

CallGrade ==
    /\ call.fn = "calculate_grade"
    /\ ~call.done
    /\ call' = [call EXCEPT !.done = TRUE,
                            !.out = calculate_grade(call.student_answers, call.answer_key)]
    /\ RunUnchanged

NextGrade == CallGrade

SpecGrade == InitGrade /\ [][NextGrade]_vars

\* the grade dictionaries process_grades stores for an exam of n questions:
\* c answers correct, for each c
GradeResults(n) ==
    { GradeData(Student(AllFields, "s1", "Ann", List(<<>>)),
                calculate_grade([i \in 1..n |-> IF i <= c THEN "A" ELSE "B"],
                                [i \in 1..n |-> "A"])) :
        c \in 0..n }

NoStats == [raised |-> "", class_average |-> FZero, highest_score |-> FZero,
            lowest_score |-> FZero, grade_distribution |-> GradeDistribution(<<>>)]

InitStats ==
    /\ NoRun
    /\ call \in [fn : {"generate_summary_stats"},
                 grades_data : UNION {SeqsUpTo(GradeResults(n), MaxGrades) : n \in 1..StatQuestions},
                 done : {FALSE}, out : {NoStats}]

CallStats ==
    /\ call.fn = "generate_summary_stats"
    /\ ~call.done
    /\ call' = [call EXCEPT !.done = TRUE,
                            !.out = generate_summary_stats(call.grades_data)]
    /\ RunUnchanged

NextStats == CallStats

SpecStats == InitStats /\ [][NextStats]_vars

\* ================================================================== claims

\* ---------------------------------------------------------------------- C1
\* the record has all three fields, as many answers as questions, and every
\* answer is one of A, B, C, D
Accepted(student, total_q) ==
    /\ AllFields \subseteq student.fields
    /\ student.answers.sized
    /\ Len(student.answers.items) = total_q
    /\ \A i \in 1..Len(student.answers.items) : student.answers.items[i] \in valid_answers

\* the records C1 speaks of: a field is missing, or answers is a list of strings
Typed(student) ==
    \/ ~(AllFields \subseteq student.fields)
    \/ /\ student.answers.sized
       /\ \A i \in 1..Len(student.answers.items) : student.answers.items[i] # Unhashable

C2_PercentageOverTotalQuestions ==
    \A i \in 1..Len(grades_data) :
        grades_data[i].percentage
            = FMul(FDiv(FromInt(grades_data[i].correct_count), total_questions), 100)

\* ---------------------------------------------------------------------- C3
\* p < k for an integer k
FLt(p, k) == ~FGe(p, k)

\* C3: the letter grade is a total, non-overlapping function of the
\* percentage: [90,100] -> A, [80,90) -> B, [70,80) -> C, [60,70) -> D,
\* [0,60) -> F, the boundaries 90, 80, 70, 60 falling in the higher band.
C3_Banding ==
    (call.fn = "calculate_grade" /\ call.done /\ call.out.raised = "") =>
        LET p == call.out.percentage
            g == call.out.letter_grade
        IN  /\ FLe(FZero, p) /\ FLe(p, FromInt(100))
            /\ g \in {"A", "B", "C", "D", "F"}
            /\ (g = "A") <=> FGe(p, 90)
            /\ (g = "B") <=> (FGe(p, 80) /\ FLt(p, 90))
            /\ (g = "C") <=> (FGe(p, 70) /\ FLt(p, 80))
            /\ (g = "D") <=> (FGe(p, 60) /\ FLt(p, 70))
            /\ (g = "F") <=> FLt(p, 60)
            /\ (p = FromInt(90)) => g = "A"
            /\ (p = FromInt(80)) => g = "B"
            /\ (p = FromInt(70)) => g = "C"
            /\ (p = FromInt(60)) => g = "D"

\* a student with exactly 80 percent (8 of 10) was graded B
C3_Witness ==
    /\ call.fn = "calculate_grade" /\ call.done
    /\ call.out.correct_count = 8
    /\ Len(call.answer_key) = 10
    /\ call.out.percentage = FromInt(80)
    /\ call.out.letter_grade = "B"

\* ------------------------------------------- what a finished loop must hold
Loaded == file.status = "ok" /\ pc # "start"

\* process_grades returned its report
Reported == pc = "returned" \/ (pc = "exited" /\ error = "")

\* the students the loop is through with
Handled == IF idx >= 1 THEN SubSeq(students, 1, idx - 1) ELSE <<>>

IsRejected(student, total_q) ==
    LET v == validate_student_data(student, total_q) IN v.raised = "" /\ ~v.is_valid

NumValid(studs, total_q) ==
    Cardinality({i \in 1..Len(studs) : IsValid(studs[i], total_q)})

NumRejected(studs, total_q) ==
    Cardinality({i \in 1..Len(studs) : IsRejected(studs[i], total_q)})

CountKind(lines, kind) == Cardinality({i \in 1..Len(lines) : lines[i].kind = kind})

\* the grades of the valid records of studs, in their order
RECURSIVE ValidGrades(_, _, _)
ValidGrades(studs, total_q, key) ==
    IF Len(studs) = 0 THEN <<>>
    ELSE (IF IsValid(studs[1], total_q)
          THEN << GradeData(studs[1], calculate_grade(studs[1].answers.items, key)) >>
          ELSE <<>>)
         \o ValidGrades(Tail(studs), total_q, key)

\* the report entry of one student: a result block, or a warning line
EntryOf(student, total_q, key) ==
    IF IsValid(student, total_q)
    THEN ResultLines(student, total_q, calculate_grade(student.answers.items, key))
    ELSE << WarningLine(student, validate_student_data(student, total_q).error_msg) >>

\* the entries of studs, in their order
RECURSIVE Entries(_, _, _)
Entries(studs, total_q, key) ==
    IF Len(studs) = 0 THEN <<>>
    ELSE EntryOf(studs[1], total_q, key) \o Entries(Tail(studs), total_q, key)

\* the last n lines
LastLines(lines, n) == SubSeq(lines, Len(lines) - n + 1, Len(lines))

\* ---------------------------------------------------------------------- C4
\* C4: a record that fails validation adds one warning line and nothing
\* else, and the loop goes on: at every point grades_data holds exactly the
\* valid records among those handled so far, processed_count counts them, the
\* warning lines count the rejected ones, every handled record was validated,
\* and the summary is computed over the valid records only.
C4_InvalidSkipped ==
    Loaded =>
        /\ grades_data = ValidGrades(Handled, total_questions, answer_key)
        /\ processed_count = NumValid(Handled, total_questions)
        /\ CountKind(output_lines, "ERROR processing")
               = NumRejected(Handled, total_questions)
        /\ Len(Handled) = NumValid(Handled, total_questions)
                              + NumRejected(Handled, total_questions)
        /\ 1..Len(Handled) \subseteq validated
        /\ Reported =>
               /\ Handled = students
               /\ grades_data # <<>> =>
                    LET block == SummaryLines(
                            NumValid(students, total_questions),
                            generate_summary_stats(
                                ValidGrades(students, total_questions, answer_key)))
                    IN  LastLines(result, Len(block)) = block

\* a run went past a rejected record, scored a later one and reported
C4_Witness ==
    /\ Loaded /\ Reported
    /\ Len(students) = 3
    /\ IsRejected(students[1], total_questions)
    /\ IsValid(students[2], total_questions)
    /\ IsRejected(students[3], total_questions)
    /\ Len(grades_data) = 1
    /\ CountKind(result, "ERROR processing") = 2

\* ---------------------------------------------------------------------- C5
\* C5: validate_student_data never raises, whatever the record holds, so no
\* run of main ends with exit code 1 on an exception of the validator.
C5_ValidationNeverRaises ==
    ~(caller = "main" /\ pc = "exited" /\ exit_code = 1 /\ error = "TypeError")

AllRejected == \A i \in 1..Len(students) : IsRejected(students[i], total_questions)

C8_MeanBetweenExtremes ==
    (call.fn = "generate_summary_stats" /\ call.done /\ Len(call.grades_data) > 0) =>
        /\ call.out.raised = ""
        /\ FLe(call.out.lowest_score, call.out.class_average)
        /\ FLe(call.out.class_average, call.out.highest_score)
        /\ DOMAIN call.out.grade_distribution = {"A", "B", "C", "D", "F"}
        /\ call.out.grade_distribution["A"] + call.out.grade_distribution["B"]
             + call.out.grade_distribution["C"] + call.out.grade_distribution["D"]
             + call.out.grade_distribution["F"] = Len(call.grades_data)

\* ---------------------------------------------------------------------- C9
FirstThree(roster) == IF Len(roster) <= 3 THEN roster ELSE SubSeq(roster, 1, 3)

\* C9: a run of main considers the first 3 students of the roster only:
\* nothing at position 4 or later is validated, scored, reported or counted;
\* process_grades called without a limit considers the whole roster.
C9_FirstThreeOnly ==
    Loaded =>
        /\ caller = "main" =>
               /\ students = FirstThree(file.students)
               /\ validated \subseteq 1..3
               /\ Len(grades_data) <= 3
               /\ processed_count <= 3
               /\ CountKind(output_lines, "Student")
                      + CountKind(output_lines, "ERROR processing") <= 3
               /\ \A i \in 1..Len(output_lines) :
                      output_lines[i].kind = "Students Processed"
                          => output_lines[i].num <= 3
        /\ (caller = "process_grades" /\ ~limit_students.given) =>
               /\ students = file.students
               /\ Reported => validated = 1..Len(file.students)

\* main reported on a roster of four whose fourth student is valid and uncounted
C9_Witness ==
    /\ caller = "main"
    /\ Loaded /\ pc = "exited" /\ exit_code = 0
    /\ Len(file.students) = 4
    /\ IsValid(file.students[4], total_questions)
    /\ IsRejected(file.students[1], total_questions)
    /\ processed_count = 2
    /\ validated = {1, 2, 3}

\* --------------------------------------------------------------------- C10
IsEntryLine(line) == line.kind \in {"Student", "ERROR processing"}

IsClosingLine(line) == line.kind \in {"CLASS SUMMARY STATISTICS", NoticeLine.kind}

\* C10: the report is the header, then one entry per considered student in
\* roster order (a result block if valid, a warning line if not), then the
\* summary block or the notice, which come after the last entry; result
\* blocks plus warning lines equal the students considered and the printed
\* "Students Processed" equals the number of result blocks.
C10_ReportOrder ==
    Loaded =>
        /\ pc \in {"loop", "raised"} \/ (pc = "exited" /\ error # "") =>
               output_lines = HeaderLines(total_questions)
                                \o Entries(Handled, total_questions, answer_key)
        /\ Reported =>
               LET body == HeaderLines(total_questions)
                             \o Entries(students, total_questions, answer_key)
               IN  /\ Len(result) > Len(body)
                   /\ SubSeq(result, 1, Len(body)) = body
                   /\ IsClosingLine(result[Len(body) + 1])
                   /\ \A i \in 1..Len(result) :
                          /\ IsEntryLine(result[i]) => i <= Len(body)
                          /\ IsClosingLine(result[i]) => i = Len(body) + 1
                          /\ result[i].kind = "Students Processed"
                                 => result[i].num = CountKind(result, "Student")
                   /\ CountKind(result, "Student")
                          + CountKind(result, "ERROR processing") = Len(students)

\* a report with a warning line between two result blocks, then the summary
C10_Witness ==
    /\ Loaded /\ Reported
    /\ Len(students) = 3
    /\ IsValid(students[1], total_questions)
    /\ IsRejected(students[2], total_questions)
    /\ IsValid(students[3], total_questions)
    /\ students[1] # students[3]
    /\ CountKind(result, "Student") = 2
    /\ CountKind(result, "CLASS SUMMARY STATISTICS") = 1

====
